---------------------------- MODULE Spec2Model ----------------------------
(***************************************************************************)
(* Model of the int-quoter request pipeline:                               *)
(*   - verifyShopifyRequest   (app/routes/orders.jsx, app/routes/proxy.$.jsx)*)
(*   - parseOrderData / parseCartText          (app/routes/orders.jsx)     *)
(*   - the three signed handlers: POST /orders, GET and POST /proxy/...    *)
(*                                                                         *)
(* A JavaScript string is a sequence of characters; a character is a       *)
(* one-element TLA+ string ("a", "$", ...).  A value that may be           *)
(* undefined/null is a record [def, s].                                    *)
(***************************************************************************)
EXTENDS Integers, Sequences, FiniteSets, TLC

VARIABLES
  searchParams,     \* url.searchParams: sequence of [key, value] entries
  sharedSecret,     \* process.env.SHOPIFY_API_SECRET
  isVerified,       \* result of verifyShopifyRequest ("none" before the call)
  prev,             \* the previous input and result (tamper / permute steps)
  op,               \* the last step taken on the verifier
  signedParams,     \* the parameters the signature was presented with first
                    \* (replay steps)
  payload,          \* the request body as handed to parseOrderData
  parsed,           \* the outcome of the last parseOrderData / parseCartText call
  pstep,            \* the last step taken on the normalizer
  route,            \* the handler serving the request
  pc,               \* where the handler stands
  contentType,      \* the request's content-type header
  draftOrderResult, \* the handler's draftOrderResult
  submitted,        \* variables.input of the admin.graphql call, once made
  calls,            \* how often the request's body was read, parseOrderData
                    \* called, and the order-submission collaborator called
  failed,           \* what went wrong: the body read, the submission (the
                    \* message of the error thrown)
  response          \* the response sent

vvars == <<searchParams, sharedSecret, isVerified, prev, op, signedParams>>
pvars == <<payload, parsed, pstep>>
hvars == <<route, pc, contentType, draftOrderResult, submitted, calls, failed, response>>
vars  == <<vvars, pvars, hvars>>

(***************************************************************************)
(* Bounds of the model.                                                    *)
(***************************************************************************)
MaxParams == 2      \* non-signature query parameters in one request
MaxText   == 5      \* characters of a generated cart description
MaxItems  == 2      \* entries of a generated structured line-items array

(***************************************************************************)
(* Characters and strings.                                                 *)
(***************************************************************************)
\* U+00AD SOFT HYPHEN, written as an atom because it does not print.
SHY == "<U+00AD>"

\* Characters that do not print, or that would need an escape, are atoms.
LF == "<U+000A>"
DQ == "<U+0022>"

Digits == << "0", "1", "2", "3", "4", "5", "6", "7", "8", "9" >>
Upper ==
  << "A", "B", "C", "D", "E", "F", "G", "H", "I", "J", "K", "L", "M",
     "N", "O", "P", "Q", "R", "S", "T", "U", "V", "W", "X", "Y", "Z" >>
Lower ==
  << "a", "b", "c", "d", "e", "f", "g", "h", "i", "j", "k", "l", "m",
     "n", "o", "p", "q", "r", "s", "t", "u", "v", "w", "x", "y", "z" >>

InTable(table, c) == \E i \in 1..Len(table) : table[i] = c
IndexOf(table, c) == CHOOSE i \in 1..Len(table) : table[i] = c

\* The UTF-16 code unit of a character.
CodeUnit(c) ==
  CASE c = LF  -> 10
    [] c = " " -> 32
    [] c = DQ  -> 34
    [] c = "$" -> 36
    [] c = "," -> 44
    [] c = "." -> 46
    [] c = "/" -> 47
    [] c = ":" -> 58
    [] c = "=" -> 61
    [] c = "[" -> 91
    [] c = "]" -> 93
    [] c = "_" -> 95
    [] c = "{" -> 123
    [] c = "}" -> 125
    [] c = SHY -> 173
    [] c = "×" -> 215
    [] InTable(Digits, c) -> 47 + IndexOf(Digits, c)
    [] InTable(Upper, c)  -> 64 + IndexOf(Upper, c)
    [] InTable(Lower, c)  -> 96 + IndexOf(Lower, c)

IsUpper(c) == InTable(Upper, c)
IsDigit(c) == InTable(Digits, c)

\* A possibly-undefined string (undefined, null or a string).
Undefined == [def |-> FALSE, s |-> <<>>]
Some(s)   == [def |-> TRUE, s |-> s]
\* JavaScript truthiness of a possibly-undefined string: `!x` is ~Truthy(x).
Truthy(x) == x.def /\ x.s # <<>>

SIGNATURE == <<"s", "i", "g", "n", "a", "t", "u", "r", "e">>
SHOP      == <<"s", "h", "o", "p">>

Entry(k, v) == [key |-> k, value |-> v]
Min(a, b) == IF a <= b THEN a ELSE b

\* Three-way lexicographic comparison of two sequences of numbers.
LexCompare(x, y) ==
  LET n == Min(Len(x), Len(y))
      D == {i \in 1..n : x[i] # y[i]}
  IN  IF D = {}
        THEN IF Len(x) < Len(y) THEN -1 ELSE IF Len(x) > Len(y) THEN 1 ELSE 0
        ELSE LET i == CHOOSE d \in D : \A e \in D : d <= e
             IN  IF x[i] < y[i] THEN -1 ELSE 1

(***************************************************************************)
(* String.prototype.localeCompare with no locale argument: the ICU root    *)
(* collation at its default (tertiary) strength, for the characters query  *)
(* keys are drawn from here (letters, digits, "_", and the soft hyphen).   *)
(*   - completely ignorable characters (soft hyphen) carry no weight;      *)
(*   - primary weights: punctuation < digits < letters, a letter and its   *)
(*     capital sharing one weight;                                         *)
(*   - primary-equal strings are ordered by case, lower case first.        *)
(***************************************************************************)
Ignorable(c) == c = SHY

PrimaryWeight(c) ==
  IF IsUpper(c) THEN CodeUnit(Lower[IndexOf(Upper, c)])
  ELSE IF IsDigit(c) \/ InTable(Lower, c) THEN CodeUnit(c)
  ELSE 0

TertiaryWeight(c) == IF IsUpper(c) THEN 1 ELSE 0

Weighed(str) == SelectSeq(str, LAMBDA c : ~Ignorable(c))

localeCompare(a, b) ==
  LET wa == Weighed(a)
      wb == Weighed(b)
      p  == LexCompare([i \in 1..Len(wa) |-> PrimaryWeight(wa[i])],
                       [i \in 1..Len(wb) |-> PrimaryWeight(wb[i])])
  IN  IF p # 0 THEN p
      ELSE LexCompare([i \in 1..Len(wa) |-> TertiaryWeight(wa[i])],
                      [i \in 1..Len(wb) |-> TertiaryWeight(wb[i])])

\* Ordinal comparison: by UTF-16 code unit.
OrdinalCompare(a, b) ==
  LexCompare([i \in 1..Len(a) |-> CodeUnit(a[i])],
             [i \in 1..Len(b) |-> CodeUnit(b[i])])

(***************************************************************************)
(* URLSearchParams.                                                        *)
(***************************************************************************)
\* searchParams.get(name): the value of the first entry named `name`, or null.
Get(sp, name) ==
  LET I == {i \in 1..Len(sp) : sp[i].key = name}
  IN  IF I = {} THEN Undefined
      ELSE Some(sp[CHOOSE i \in I : \A j \in I : i <= j].value)

\* params.delete(name): every entry named `name` is removed.
Delete(sp, name) == SelectSeq(sp, LAMBDA e : e.key # name)

\* The comparator handed to Array.prototype.sort.
CompareKeys(a, b) == localeCompare(a.key, b.key)

\* Variant: the entries are left in input order.
SortOmitted(entries) == entries

\* Array.prototype.sort(compare): a stable sort.
RECURSIVE Sort(_)
Sort(entries) ==
  IF entries = <<>> THEN <<>>
  ELSE LET n    == Len(entries)
           init == Sort(SubSeq(entries, 1, n - 1))
           e    == entries[n]
           k    == Cardinality({i \in 1..Len(init) : CompareKeys(init[i], e) <= 0})
       IN  SubSeq(init, 1, k) \o <<e>> \o SubSeq(init, k + 1, Len(init))

\* Variant: the values are left out of the serialization.
RECURSIVE JoinKeysOnly(_)
JoinKeysOnly(entries) ==
  IF entries = <<>> THEN <<>>
  ELSE entries[1].key \o <<"=">> \o JoinKeysOnly(Tail(entries))

\* .map(([key, value]) => `${key}=${value}`).join("")
RECURSIVE Join(_)
Join(entries) ==
  IF entries = <<>> THEN <<>>
  ELSE entries[1].key \o <<"=">> \o entries[1].value \o Join(Tail(entries))

\* Variant: a digest that tells messages apart by their length only.
HmacOfLength(key, msg) ==
  <<"hmac-sha256:">> \o key \o <<"|">> \o [i \in 1..Len(msg) |-> "0"]

\* crypto.createHmac("sha256", key).update(msg).digest("hex"): the digest is
\* collision-free, so it is the pair (key, msg) written as one string.
HmacHex(key, msg) == <<"hmac-sha256:">> \o key \o <<"|">> \o msg

sortedParams(sp) == Join(Sort(Delete(sp, SIGNATURE)))

\* Variant: an unconfigured secret is used as the (empty) key.
verifyWithoutSecretGuard(sp, secret) ==
  LET signature == Get(sp, SIGNATURE)
  IN  IF ~Truthy(signature) THEN FALSE
      ELSE HmacHex(secret.s, sortedParams(sp)) = signature.s

\* Variant: a request that carries no signature is let through.
verifyUnsignedPasses(sp, secret) ==
  IF ~Truthy(secret) THEN FALSE
  ELSE LET signature == Get(sp, SIGNATURE)
       IN  IF ~Truthy(signature) THEN TRUE
           ELSE HmacHex(secret.s, sortedParams(sp)) = signature.s

verifyShopifyRequest(sp, secret) ==
  IF ~Truthy(secret) THEN FALSE
  ELSE LET signature == Get(sp, SIGNATURE)
       IN  IF ~Truthy(signature) THEN FALSE
           ELSE HmacHex(secret.s, sortedParams(sp)) = signature.s

(***************************************************************************)
(* The signing party (spec 4.1, steps 3-6): signature removed, keys sorted *)
(* ascending by ordinal comparison, `key=value` concatenated with no       *)
(* separator, HMAC-SHA256 in lowercase hex.                                *)
(***************************************************************************)
RECURSIVE OrdinalSort(_)
OrdinalSort(entries) ==
  IF entries = <<>> THEN <<>>
  ELSE LET n    == Len(entries)
           init == OrdinalSort(SubSeq(entries, 1, n - 1))
           e    == entries[n]
           k    == Cardinality({i \in 1..Len(init) :
                                  OrdinalCompare(init[i].key, e.key) <= 0})
       IN  SubSeq(init, 1, k) \o <<e>> \o SubSeq(init, k + 1, Len(init))

RECURSIVE Concat(_)
Concat(strs) == IF strs = <<>> THEN <<>> ELSE strs[1] \o Concat(Tail(strs))

SpecSerialize(sp) ==
  LET sorted == OrdinalSort(SelectSeq(sp, LAMBDA e : e.key # SIGNATURE))
  IN  Concat([i \in 1..Len(sorted) |-> sorted[i].key \o <<"=">> \o sorted[i].value])

SpecSign(sp, key) == HmacHex(key, SpecSerialize(sp))

(***************************************************************************)
(* Inputs of the verifier.                                                 *)
(***************************************************************************)
KeyPool    == { <<"a">>, <<"B">>, <<SHY, "a">> }
ValuePool  == { <<"1">>, <<"1", "a", "=", "1">> }
SecretPool == { Undefined, Some(<<>>), Some(<<"k">>) }
SigningKeys == { <<>>, <<"k">> }
Garbage    == <<"0">>

Pairs == { Entry(k, v) : k \in KeyPool, v \in ValuePool }
Bases == UNION { [1..n -> Pairs] : n \in 0..MaxParams }

SigPool(b) ==
  { SpecSign(b, k) : k \in SigningKeys }
    \cup { HmacHex(k, sortedParams(b)) : k \in SigningKeys }
    \cup { <<>>, Garbage }

InsertAt(b, p, e) == SubSeq(b, 1, p) \o <<e>> \o SubSeq(b, p + 1, Len(b))

RequestsOf(b) ==
  {b}
    \cup { InsertAt(b, p, Entry(SIGNATURE, sig)) : p \in 0..Len(b), sig \in SigPool(b) }
    \cup { <<Entry(SIGNATURE, sig)>> \o b \o <<Entry(SIGNATURE, Garbage)>> : sig \in SigPool(b) }
    \cup { <<Entry(SIGNATURE, Garbage)>> \o b \o <<Entry(SIGNATURE, sig)>> : sig \in SigPool(b) }

(***************************************************************************)
(* JavaScript values: the payload, its fields, and what JSON.parse yields. *)
(* An object is a function from property names (strings) to values.        *)
(***************************************************************************)
JsUndefined == [t |-> "undefined"]
JsNull      == [t |-> "null"]
JsBool(b)   == [t |-> "boolean", b |-> b]
JsNum(n)    == [t |-> "number", n |-> n]
JsStr(s)    == [t |-> "string", s |-> s]
JsArr(a)    == [t |-> "array", a |-> a]
JsObj(f)    == [t |-> "object", f |-> f]

NoProps == [k \in {} |-> JsUndefined]

\* ToBoolean.
JsTruthy(v) ==
  CASE v.t = "undefined" -> FALSE
    [] v.t = "null"      -> FALSE
    [] v.t = "boolean"   -> v.b
    [] v.t = "number"    -> v.n # 0
    [] v.t = "string"    -> v.s # <<>>
    [] OTHER             -> TRUE

\* v[name] throws a TypeError exactly when v is null or undefined.
Nullish(v) == v.t \in {"undefined", "null"}

\* v[name] for a value that is not nullish (own data properties only: the
\* payloads carry none of the names that live on the prototypes).
GetProp(v, name) ==
  IF v.t = "object" /\ name \in DOMAIN v.f THEN v.f[name] ELSE JsUndefined

(***************************************************************************)
(* parseCartText.                                                          *)
(***************************************************************************)
MulSign == "×"

DEFAULT_VARIANT_ID ==
  << "g", "i", "d", ":", "/", "/", "s", "h", "o", "p", "i", "f", "y", "/",
     "P", "r", "o", "d", "u", "c", "t", "V", "a", "r", "i", "a", "n", "t",
     "/", "4", "9", "4", "5", "7", "7", "4", "3", "0", "3", "6", "7", "1",
     "5" >>

\* str.split("\n")
RECURSIVE Split(_)
Split(str) ==
  LET B == {i \in 1..Len(str) : str[i] = LF}
  IN  IF B = {} THEN <<str>>
      ELSE LET b == CHOOSE i \in B : \A j \in B : i <= j
           IN  <<SubSeq(str, 1, b - 1)>> \o Split(SubSeq(str, b + 1, Len(str)))

\* line.includes(c)
Includes(line, c) == \E i \in 1..Len(line) : line[i] = c

\* \s, for the characters of the model.
IsSpace(c) == c = " " \/ c = LF

\* parseInt of a string of decimal digits.
RECURSIVE parseInt(_)
parseInt(digits) ==
  IF digits = <<>> THEN 0
  ELSE 10 * parseInt(SubSeq(digits, 1, Len(digits) - 1))
         + (CodeUnit(digits[Len(digits)]) - CodeUnit("0"))

\* Does /(\d+)\s*×/ match at position p?  \d+ and \s* are greedy and a
\* shorter match of either cannot be followed by what comes next, so the
\* digits are the whole run starting at p.
DigitsEnd(line, p) ==
  CHOOSE q \in p..Len(line) :
    /\ \A i \in p..q : IsDigit(line[i])
    /\ (q = Len(line) \/ ~IsDigit(line[q + 1]))

SpacesEnd(line, q) ==
  CHOOSE r \in q..Len(line) :
    /\ \A i \in (q + 1)..r : IsSpace(line[i])
    /\ (r = Len(line) \/ ~IsSpace(line[r + 1]))

MatchesAt(line, p) ==
  /\ IsDigit(line[p])
  /\ LET r == SpacesEnd(line, DigitsEnd(line, p))
     IN  r < Len(line) /\ line[r + 1] = MulSign

\* Variant: the spaces between the digits and the marker are not allowed.
quantityNoSpaces(line) ==
  LET M == {p \in 1..Len(line) :
              /\ IsDigit(line[p])
              /\ DigitsEnd(line, p) < Len(line)
              /\ line[DigitsEnd(line, p) + 1] = MulSign}
  IN  IF M = {} THEN 1
      ELSE LET p == CHOOSE m \in M : \A n \in M : m <= n
           IN  parseInt(SubSeq(line, p, DigitsEnd(line, p)))

\* line.match(/(\d+)\s*×/): the leftmost match; its group, parsed, or 1.
quantityOf(line) ==
  LET M == {p \in 1..Len(line) : MatchesAt(line, p)}
  IN  IF M = {} THEN 1
      ELSE LET p == CHOOSE m \in M : \A n \in M : m <= n
           IN  parseInt(SubSeq(line, p, DigitsEnd(line, p)))

LineItem(variantId, quantity) == [variantId |-> variantId, quantity |-> quantity]

\* The result of a call: a value, or an exception thrown.
Returned(v) == [threw |-> FALSE, value |-> v]
Thrown      == [threw |-> TRUE, value |-> <<>>]

parseCartText(text) ==
  IF ~JsTruthy(text) THEN Returned(<<>>)
  ELSE IF text.t # "string" THEN Thrown      \* cartText.split is not a function
  ELSE LET cartLines == SelectSeq(Split(text.s),
                          LAMBDA line : Includes(line, MulSign) /\ Includes(line, "$"))
       IN  Returned([i \in 1..Len(cartLines) |->
                      LineItem(JsStr(DEFAULT_VARIANT_ID), JsNum(quantityOf(cartLines[i])))])

(***************************************************************************)
(* JSON.parse, on the JSON the model's texts are written in: null, true,   *)
(* false, unsigned integers, strings without escapes, arrays and objects,  *)
(* with white space between the tokens.                                    *)
(***************************************************************************)
\* The result of parsing one value: the value and the index after it.
ParseOk(v, next) == [ok |-> TRUE, v |-> v, next |-> next]
ParseFail        == [ok |-> FALSE, v |-> JsUndefined, next |-> 0]

IsJsonSpace(c) == c = " " \/ c = LF

\* The first index from i on that holds no white space (Len + 1 at the end).
SkipSpace(s, i) ==
  LET R == {j \in i..Len(s) : ~IsJsonSpace(s[j])}
  IN  IF R = {} THEN Len(s) + 1 ELSE CHOOSE j \in R : \A k \in R : j <= k

StartsWith(s, i, word) ==
  i + Len(word) - 1 <= Len(s) /\ SubSeq(s, i, i + Len(word) - 1) = word

ParseString(s, i) ==
  LET Q == {j \in (i + 1)..Len(s) : s[j] = DQ}
  IN  IF Q = {} THEN ParseFail
      ELSE LET j == CHOOSE q \in Q : \A r \in Q : q <= r
           IN  IF \E k \in (i + 1)..(j - 1) : s[k] = LF THEN ParseFail
               ELSE ParseOk(JsStr(SubSeq(s, i + 1, j - 1)), j + 1)

ParseNumber(s, i) ==
  IF s[i] = "0" THEN ParseOk(JsNum(0), i + 1)
  ELSE LET q == DigitsEnd(s, i)
       IN  ParseOk(JsNum(parseInt(SubSeq(s, i, q))), q + 1)

RECURSIVE ParseValue(_, _)
RECURSIVE ParseElements(_, _, _)
RECURSIVE ParseMembers(_, _, _)

\* The elements of an array from index i on, after "[" or ",".
ParseElements(s, i, acc) ==
  LET e == ParseValue(s, SkipSpace(s, i))
      n == SkipSpace(s, e.next)
  IN  IF ~e.ok \/ n > Len(s) THEN ParseFail
      ELSE IF s[n] = "," THEN ParseElements(s, n + 1, Append(acc, e.v))
      ELSE IF s[n] = "]" THEN ParseOk(JsArr(Append(acc, e.v)), n + 1)
      ELSE ParseFail

\* The members of an object from index i on, after "{" or ",".
ParseMembers(s, i, acc) ==
  LET k == SkipSpace(s, i)
      key == IF k <= Len(s) /\ s[k] = DQ THEN ParseString(s, k) ELSE ParseFail
      c == SkipSpace(s, key.next)
  IN  IF ~key.ok \/ c > Len(s) \/ s[c] # ":" THEN ParseFail
      ELSE LET m == ParseValue(s, SkipSpace(s, c + 1))
               n == SkipSpace(s, m.next)
               put == [p \in DOMAIN acc \cup {key.v.s} |->
                         IF p = key.v.s THEN m.v ELSE acc[p]]
           IN  IF ~m.ok \/ n > Len(s) THEN ParseFail
               ELSE IF s[n] = "," THEN ParseMembers(s, n + 1, put)
               ELSE IF s[n] = "}" THEN ParseOk(JsObj(put), n + 1)
               ELSE ParseFail

ParseValue(s, i) ==
  IF i > Len(s) THEN ParseFail
  ELSE IF StartsWith(s, i, <<"n", "u", "l", "l">>) THEN ParseOk(JsNull, i + 4)
  ELSE IF StartsWith(s, i, <<"t", "r", "u", "e">>) THEN ParseOk(JsBool(TRUE), i + 4)
  ELSE IF StartsWith(s, i, <<"f", "a", "l", "s", "e">>) THEN ParseOk(JsBool(FALSE), i + 5)
  ELSE IF s[i] = DQ THEN ParseString(s, i)
  ELSE IF IsDigit(s[i]) THEN ParseNumber(s, i)
  ELSE IF s[i] = "[" THEN
         LET n == SkipSpace(s, i + 1)
         IN  IF n <= Len(s) /\ s[n] = "]" THEN ParseOk(JsArr(<<>>), n + 1)
             ELSE ParseElements(s, i + 1, <<>>)
  ELSE IF s[i] = "{" THEN
         LET n == SkipSpace(s, i + 1)
         IN  IF n <= Len(s) /\ s[n] = "}" THEN ParseOk(JsObj(NoProps), n + 1)
             ELSE ParseMembers(s, i + 1, NoProps)
  ELSE ParseFail

\* JSON.parse(text): the value, or a SyntaxError thrown.
JSONparse(text) ==
  LET r == ParseValue(text, SkipSpace(text, 1))
  IN  IF r.ok /\ SkipSpace(text, r.next) > Len(text) THEN Returned(r.v) ELSE Thrown

\* Number.prototype.toString of a natural number.
RECURSIVE NumToString(_)
NumToString(n) ==
  IF n < 10 THEN <<Digits[n + 1]>>
  ELSE NumToString(n \div 10) \o <<Digits[(n % 10) + 1]>>

\* ToString, which JSON.parse applies to its argument.
RECURSIVE JsToString(_)
JsToString(v) ==
  CASE v.t = "string"    -> v.s
    [] v.t = "number"    -> NumToString(v.n)
    [] v.t = "boolean"   -> IF v.b THEN <<"t", "r", "u", "e">> ELSE <<"f", "a", "l", "s", "e">>
    [] v.t = "null"      -> <<"n", "u", "l", "l">>
    [] v.t = "undefined" -> <<"u", "n", "d", "e", "f", "i", "n", "e", "d">>
    [] v.t = "array"     ->
         Concat([i \in 1..Len(v.a) |->
                   (IF i > 1 THEN <<",">> ELSE <<>>)
                     \o (IF Nullish(v.a[i]) THEN <<>> ELSE JsToString(v.a[i]))])
    [] v.t = "object"    ->
         <<"[", "o", "b", "j", "e", "c", "t", " ", "O", "b", "j", "e", "c", "t", "]">>

(***************************************************************************)
(* parseOrderData.                                                         *)
(***************************************************************************)
\* The property name `quote[<name>]`.
Quote(name) == <<"q", "u", "o", "t", "e", "[">> \o name \o <<"]">>

EMAIL             == <<"e", "m", "a", "i", "l">>
FULL_NAME         == <<"f", "u", "l", "l", "_", "n", "a", "m", "e">>
SHIPPING_ADDRESS1 ==
  << "s", "h", "i", "p", "p", "i", "n", "g", "_", "a", "d", "d", "r", "e",
     "s", "s", "1" >>
SHIPPING_CITY     ==
  <<"s", "h", "i", "p", "p", "i", "n", "g", "_", "c", "i", "t", "y">>
SHIPPING_PROVINCE ==
  << "s", "h", "i", "p", "p", "i", "n", "g", "_", "p", "r", "o", "v", "i",
     "n", "c", "e" >>
SHIPPING_COUNTRY  ==
  << "s", "h", "i", "p", "p", "i", "n", "g", "_", "c", "o", "u", "n", "t",
     "r", "y" >>
SHIPPING_ZIP      ==
  <<"s", "h", "i", "p", "p", "i", "n", "g", "_", "z", "i", "p">>
CART              == <<"C", "a", "r", "t">>
CART_LINE_ITEMS   ==
  << "c", "a", "r", "t", "_", "l", "i", "n", "e", "_", "i", "t", "e", "m",
     "s" >>
CART_TOTAL        == <<"c", "a", "r", "t", "_", "t", "o", "t", "a", "l">>
VARIANT_ID        == <<"v", "a", "r", "i", "a", "n", "t", "I", "d">>
QUANTITY          == <<"q", "u", "a", "n", "t", "i", "t", "y">>

\* orderData.lineItems: never assigned, or an array of line items.
NotAssigned     == [assigned |-> FALSE, items |-> <<>>]
Assigned(items) == [assigned |-> TRUE, items |-> items]

\* Variant: the product identifier is read from `id`.
mapLineItemsFromId(lineItems) ==
  IF lineItems.t # "array" THEN Thrown
  ELSE IF \E i \in 1..Len(lineItems.a) : Nullish(lineItems.a[i]) THEN Thrown
  ELSE Returned([i \in 1..Len(lineItems.a) |->
                  LineItem(GetProp(lineItems.a[i], <<"i", "d">>),
                           GetProp(lineItems.a[i], QUANTITY))])

\* lineItems.map((item) => ({variantId: item.variantId, quantity: item.quantity})):
\* a TypeError when lineItems has no map method (it is no array), or when an
\* item is null.
mapLineItems(lineItems) ==
  IF lineItems.t # "array" THEN Thrown
  ELSE IF \E i \in 1..Len(lineItems.a) : Nullish(lineItems.a[i]) THEN Thrown
  ELSE Returned([i \in 1..Len(lineItems.a) |->
                  LineItem(GetProp(lineItems.a[i], VARIANT_ID),
                           GetProp(lineItems.a[i], QUANTITY))])

\* The try block of parseOrderData: JSON.parse, then map.
parseLineItems(cart_line_items) ==
  LET lineItems == JSONparse(JsToString(cart_line_items))
  IN  IF lineItems.threw THEN Thrown ELSE mapLineItems(lineItems.value)

parseOrderData(body) ==
  IF Nullish(body) THEN Thrown       \* payload["quote[email]"] of a null payload
  ELSE
  LET orderData ==
        [ email             |-> GetProp(body, Quote(EMAIL)),
          full_name         |-> GetProp(body, Quote(FULL_NAME)),
          shipping_address1 |-> GetProp(body, Quote(SHIPPING_ADDRESS1)),
          shipping_city     |-> GetProp(body, Quote(SHIPPING_CITY)),
          shipping_province |-> GetProp(body, Quote(SHIPPING_PROVINCE)),
          shipping_country  |-> GetProp(body, Quote(SHIPPING_COUNTRY)),
          shipping_zip      |-> GetProp(body, Quote(SHIPPING_ZIP)),
          cart              |-> GetProp(body, Quote(CART)),
          cart_line_items   |-> GetProp(body, Quote(CART_LINE_ITEMS)),
          cart_total        |-> GetProp(body, Quote(CART_TOTAL)),
          lineItems         |-> NotAssigned ]
      fromText == parseCartText(orderData.cart)
      withItems(items) == Returned([orderData EXCEPT !.lineItems = Assigned(items)])
  IN  IF JsTruthy(orderData.cart_line_items)
        THEN LET mapped == parseLineItems(orderData.cart_line_items)
             IN  IF ~mapped.threw THEN withItems(mapped.value)
                 ELSE \* catch: fall back to cart text parsing
                      IF fromText.threw THEN Thrown ELSE withItems(fromText.value)
      ELSE IF JsTruthy(orderData.cart)
        THEN IF fromText.threw THEN Thrown ELSE withItems(fromText.value)
      ELSE Returned(orderData)

(***************************************************************************)
(* Inputs of the normalizer.                                               *)
(***************************************************************************)
\* Cart descriptions: every text of up to MaxText characters over the
\* markers, a digit, the space and the line feed, and the texts below.
CartAlphabet == { "2", " ", MulSign, "$", LF }

ExampleCart ==
  << "2", " ", MulSign, " ", "W", "i", "d", "g", "e", "t", " ", "$", "1", "0",
     ".", "0", "0", LF,
     "1", " ", MulSign, " ", "G", "a", "d", "g", "e", "t", " ", "$", "5", ".",
     "0", "0" >>

CartTexts ==
  UNION { [1..n -> CartAlphabet] : n \in 0..MaxText }
    \cup { ExampleCart,
           <<"1", "0", " ", MulSign, " ", "W", " ", "$", "3">>,
           <<"3", " ", "W", " ", MulSign, " ", "$", "5">>,
           <<"W", " ", MulSign, " ", "1", "2", MulSign, "$">>,
           <<"W", "i", "d", "g", "e", "t">> }

\* Structured line items as a client writes them.
EXAMPLE_VARIANT ==
  << "g", "i", "d", ":", "/", "/", "s", "h", "o", "p", "i", "f", "y", "/",
     "P", "r", "o", "d", "u", "c", "t", "V", "a", "r", "i", "a", "n", "t",
     "/", "1", "2", "3" >>

ItemPool ==
  { LineItem(JsStr(EXAMPLE_VARIANT), JsNum(3)),
    LineItem(JsStr(<<"v">>), JsNum(1)),
    LineItem(JsStr(<<"v">>), JsStr(<<"2">>)),
    LineItem(JsNum(7), JsNum(0)) }

ItemArrays == UNION { [1..n -> ItemPool] : n \in 0..MaxItems }

\* JSON.stringify of a string (without characters to escape) or a number.
ScalarText(v) ==
  IF v.t = "string" THEN <<DQ>> \o v.s \o <<DQ>> ELSE NumToString(v.n)

ItemText(item, sp) ==
  <<"{">> \o sp \o <<DQ>> \o VARIANT_ID \o <<DQ, ":">> \o sp
    \o ScalarText(item.variantId) \o <<",">> \o sp
    \o <<DQ>> \o QUANTITY \o <<DQ, ":">> \o sp \o ScalarText(item.quantity)
    \o sp \o <<"}">>

\* The JSON text of an array of line items, `sp` between the tokens.
ItemsText(items, sp) ==
  <<"[">> \o sp
    \o Concat([i \in 1..Len(items) |->
                 (IF i > 1 THEN <<",">> \o sp ELSE <<>>) \o ItemText(items[i], sp)])
    \o sp \o <<"]">>

ExampleItems == <<LineItem(JsStr(EXAMPLE_VARIANT), JsNum(3))>>

Prefixes(text) == { SubSeq(text, 1, n) : n \in 0..(Len(text) - 1) }

\* Texts that are JSON but no array of objects, and texts that are no JSON.
OtherTexts ==
  { <<"n", "u", "l", "l">>, <<"5">>, <<"0">>, <<"t", "r", "u", "e">>,
    <<"{", "}">>, <<"[", "n", "u", "l", "l", "]">>, <<"[", "5", "]">>,
    <<"[", "[", "]", "]">>, <<DQ, "a", DQ>>,
    <<"{", DQ, "m", "a", "p", DQ, ":", "1", "}">>,
    <<"[", "1", ",", "]">>, <<"0", "1">>, <<"[", "]", "x">>, <<" ">> }
    \cup Prefixes(ItemsText(ExampleItems, <<>>))

LineItemsTexts ==
  { ItemsText(items, sp) : items \in ItemArrays, sp \in {<<>>, <<" ">>} }
    \cup OtherTexts

\* Values a JSON body can give a field besides strings.
OtherValues ==
  { JsNull, JsNum(0), JsNum(5), JsBool(TRUE), JsArr(<<>>),
    JsArr(<<JsNum(1)>>), JsObj(NoProps) }

CartValues ==
  { JsStr(<<>>), JsStr(ExampleCart), JsStr(<<"2", MulSign, "$">>),
    JsStr(<<"W">>) } \cup OtherValues

LineItemsValues == { JsStr(t) : t \in LineItemsTexts } \cup {JsStr(<<>>)} \cup OtherValues

\* An object with the given fields; a field of value undefined is absent.
PayloadOf(email, cart, items) ==
  LET all == [k \in {Quote(EMAIL), Quote(CART), Quote(CART_LINE_ITEMS)} |->
                IF k = Quote(EMAIL) THEN email
                ELSE IF k = Quote(CART) THEN cart ELSE items]
      K == {k \in DOMAIN all : all[k].t # "undefined"}
  IN  JsObj([k \in K |-> all[k]])

\* What request.json(), Object.fromEntries(formData) and request.text() give.
Payloads ==
  { PayloadOf(e, c, i) :
      e \in {JsUndefined, JsStr(<<"a", "@", "b", ".", "c">>)},
      c \in CartValues \cup {JsUndefined},
      i \in LineItemsValues \cup {JsUndefined} }
    \cup { PayloadOf(JsUndefined, JsStr(t), JsUndefined) : t \in CartTexts }
    \cup OtherValues
    \cup { JsStr(<<>>), JsStr(ExampleCart) }

(***************************************************************************)
(* The normalizer as a state machine: one call of parseOrderData on the    *)
(* payload, or one call of parseCartText on its cart description.          *)
(***************************************************************************)
\* No request is in flight in the runs of the verifier and the normalizer.
HandlerIdle ==
  /\ route = "none"
  /\ pc = "idle"
  /\ contentType = "none"
  /\ draftOrderResult = [t |-> "null"]
  /\ submitted = [made |-> FALSE, input |-> <<>>]
  /\ calls = [body |-> 0, parse |-> 0, admin |-> 0, graphql |-> 0]
  /\ failed = [body |-> FALSE, submission |-> Undefined]
  /\ response = [status |-> 0, kind |-> "none", draftOrder |-> [t |-> "null"]]

VerifierIdle ==
  /\ searchParams = <<>>
  /\ sharedSecret = Undefined
  /\ isVerified = FALSE
  /\ prev = FALSE
  /\ op = "idle"
  /\ signedParams = <<>>

ParseInit ==
  /\ payload \in Payloads
  /\ parsed = Returned(<<>>)
  /\ pstep = "init"
  /\ VerifierIdle
  /\ HandlerIdle

Normalize ==
  /\ pstep = "init"
  /\ parsed' = parseOrderData(payload)
  /\ pstep' = "normalize"
  /\ UNCHANGED <<payload, vvars, hvars>>

CartText ==
  /\ pstep = "init"
  /\ ~Nullish(payload)
  /\ parsed' = parseCartText(GetProp(payload, Quote(CART)))
  /\ pstep' = "cart"
  /\ UNCHANGED <<payload, vvars, hvars>>

ParseNext == Normalize \/ CartText

ParseSpec == ParseInit /\ [][ParseNext]_vars

(***************************************************************************)
(* The verifier as a state machine: one call, then the input is changed    *)
(* (one value replaced, or two entries exchanged) and verified again.      *)
(* The inputs are closed under exchanges, so single exchanges reach every  *)
(* pair of permutations.                                                   *)
(***************************************************************************)
\* The normalizer takes no part in the verifier's runs.
NormalizerIdle ==
  /\ payload = JsUndefined
  /\ parsed = Returned(<<>>)
  /\ pstep = "idle"

VerifyInit ==
  /\ \E b \in Bases : searchParams \in RequestsOf(b)
  /\ sharedSecret \in SecretPool
  /\ isVerified = FALSE
  /\ prev = FALSE
  /\ op = "init"
  /\ signedParams = <<>>
  /\ NormalizerIdle
  /\ HandlerIdle

Verify ==
  /\ op = "init"
  /\ isVerified' = verifyShopifyRequest(searchParams, sharedSecret)
  /\ op' = "verify"
  /\ UNCHANGED <<searchParams, sharedSecret, prev, signedParams, pvars, hvars>>

\* One non-signature value is replaced by a different one.
Tamper ==
  /\ op = "verify"
  /\ \E i \in 1..Len(searchParams), v \in ValuePool :
       /\ searchParams[i].key # SIGNATURE
       /\ searchParams[i].value # v
       /\ searchParams' = [searchParams EXCEPT ![i].value = v]
  /\ prev' = isVerified
  /\ isVerified' = verifyShopifyRequest(searchParams', sharedSecret)
  /\ op' = "tamper"
  /\ UNCHANGED <<sharedSecret, signedParams, pvars, hvars>>

\* Two entries of the input change places.
Permute ==
  /\ op = "verify"
  /\ \E i, j \in 1..Len(searchParams) :
       /\ i < j
       /\ searchParams' = [searchParams EXCEPT ![i] = searchParams[j],
                                               ![j] = searchParams[i]]
  /\ prev' = isVerified
  /\ isVerified' = verifyShopifyRequest(searchParams', sharedSecret)
  /\ op' = "permute"
  /\ UNCHANGED <<sharedSecret, signedParams, pvars, hvars>>

VerifyNext == Verify \/ Tamper \/ Permute

VerifySpec == VerifyInit /\ [][VerifyNext]_vars

(***************************************************************************)
(* Properties of the verifier (checked under VerifySpec).                  *)
(***************************************************************************)
Verified == op # "init"

\* C2: with an empty or absent shared secret, verifyShopifyRequest returns
\* false for every parameter set and every signature, the correct HMAC of
\* the serialization under the empty key included.
C2_EmptySecretRejects ==
  (Verified /\ ~Truthy(sharedSecret)) => isVerified = FALSE

C2_Witness ==
  /\ op = "verify"
  /\ sharedSecret = Some(<<>>)
  /\ Len(searchParams) = 3
  /\ Get(searchParams, SIGNATURE) = Some(SpecSign(searchParams, <<>>))
  /\ SpecSerialize(searchParams) = sortedParams(searchParams)

\* C3: a parameter set without a `signature` field never verifies, whatever
\* the secret.
C3_NoSignatureRejects ==
  (Verified /\ ~Get(searchParams, SIGNATURE).def) => isVerified = FALSE

C3_Witness ==
  /\ op = "verify"
  /\ Truthy(sharedSecret)
  /\ Len(searchParams) = 2
  /\ ~Get(searchParams, SIGNATURE).def

\* C4: sign-then-verify round trip.  Under a non-empty secret, a parameter
\* set whose signature is the HMAC of the ordinal-sorted, separator-less
\* serialization of its other parameters verifies.
C4_RoundTrip ==
  ( /\ op = "verify"
    /\ Truthy(sharedSecret)
    /\ Get(searchParams, SIGNATURE) = Some(SpecSign(searchParams, sharedSecret.s)) )
  => isVerified = TRUE

\* C5: tamper detection.  After a parameter set has verified under a
\* non-empty secret, replacing the value of one non-signature parameter by a
\* different value makes verification fail.
C5_TamperDetected ==
  (op = "tamper" /\ prev = TRUE) => isVerified = FALSE

C5_Witness ==
  /\ op = "tamper"
  /\ prev = TRUE
  /\ Len(searchParams) = 3
  /\ isVerified = FALSE

SignatureCount(sp) == Cardinality({i \in 1..Len(sp) : sp[i].key = SIGNATURE})

\* C6 as stated: for two inputs with the same pairs and the same (one)
\* signature, exchanging entries never changes the result.
C6_OrderIndependent ==
  (op = "permute" /\ SignatureCount(searchParams) = 1) => isVerified = prev

\* No two entries of the input have keys the sort's comparison takes for
\* equal: no key occurs twice (`signature` included) and no two different
\* keys compare equal.
NoTies(sp) ==
  \A i, j \in 1..Len(sp) :
    i < j => /\ sp[i].key # sp[j].key
             /\ localeCompare(sp[i].key, sp[j].key) # 0

\* C6 (amended): when no two entries have keys that compare equal, the
\* result does not depend on the order of the entries.
C6_OrderIndependentNoTies ==
  (op = "permute" /\ NoTies(searchParams)) => isVerified = prev

C6_Witness ==
  /\ op = "permute"
  /\ NoTies(searchParams)
  /\ Len(searchParams) = 3
  /\ searchParams[3].key = SIGNATURE
  /\ OrdinalCompare(searchParams[1].key, searchParams[2].key) > 0
  /\ isVerified = TRUE

(***************************************************************************)
(* Properties of the normalizer (checked under ParseSpec).                 *)
(***************************************************************************)
\* C7: normalization is total: parseOrderData returns a result, and throws
\* nothing, for every payload the handler can pass to it.
C7_NormalizeTotal ==
  pstep = "normalize" => ~parsed.threw

CartLineItemsOf(body) == GetProp(body, Quote(CART_LINE_ITEMS))

\* The structured line items a payload carries as JSON text, if it does.
CarriesItems(items) ==
  \E sp \in {<<>>, <<" ">>} :
    CartLineItemsOf(payload) = JsStr(ItemsText(items, sp))

\* C9: when quote[cart_line_items] is valid JSON for a sequence of
\* {variantId, quantity} objects, lineItems is that sequence: same length,
\* same order, every variantId and quantity unmodified, whatever the cart
\* description holds.
C9_StructuredItemsUsed ==
  (pstep = "normalize" /\ CartLineItemsOf(payload).t = "string") =>
    \A items \in ItemArrays :
      CarriesItems(items) =>
        /\ ~parsed.threw
        /\ parsed.value.lineItems = Assigned(items)

\* Two different entries are carried next to a cart description that is no
\* string, which parseCartText cannot read.
C9_Witness ==
  /\ pstep = "normalize"
  /\ GetProp(payload, Quote(CART)) = JsNum(5)
  /\ \E items \in ItemArrays :
       /\ Len(items) = 2
       /\ items[1] # items[2]
       /\ CarriesItems(items)
       /\ parsed.value.lineItems = Assigned(items)

\* The lines of a text, each named by the line break before it (0 for the
\* first line).
LineBreaks(text) == {0} \cup {i \in 1..Len(text) : text[i] = LF}

LineAt(text, b) ==
  LET After == {i \in LineBreaks(text) : i > b} \cup {Len(text) + 1}
  IN  SubSeq(text, b + 1, (CHOOSE e \in After : \A f \in After : e <= f) - 1)

IsItemLine(line) ==
  /\ \E i \in 1..Len(line) : line[i] = MulSign
  /\ \E i \in 1..Len(line) : line[i] = "$"

ItemLineBreaks(text) == {b \in LineBreaks(text) : IsItemLine(LineAt(text, b))}

\* The k-th item line of a text.
ItemLine(text, k) ==
  LineAt(text, CHOOSE b \in ItemLineBreaks(text) :
                 Cardinality({c \in ItemLineBreaks(text) : c <= b}) = k)

\* The digits a..e of a line are an integer preceding the marker at m: a
\* whole run of digits with nothing but white space up to the marker.
IntegerBefore(line, a, e, m) ==
  /\ a <= e /\ e < m
  /\ \A i \in a..e : IsDigit(line[i])
  /\ (a = 1 \/ ~IsDigit(line[a - 1]))
  /\ \A i \in (e + 1)..(m - 1) : line[i] = " "

DecimalValue(line, a, e) ==
  LET digit(i) == CHOOSE d \in 0..9 : Digits[d + 1] = line[i]
      RECURSIVE sum(_)
      sum(i) == IF i > e THEN 0 ELSE digit(i) * 10 ^ (e - i) + sum(i + 1)
  IN  sum(a)

\* The quantity a line states: the integer preceding the first marker that
\* has one, or 1.
StatedQuantity(line) ==
  LET Pos == 1..Len(line)
      M == {m \in Pos : line[m] = MulSign
                          /\ \E a, e \in Pos : IntegerBefore(line, a, e, m)}
  IN  IF M = {} THEN 1
      ELSE LET m == CHOOSE x \in M : \A y \in M : x <= y
               ae == CHOOSE p \in Pos \X Pos : IntegerBefore(line, p[1], p[2], m)
           IN  DecimalValue(line, ae[1], ae[2])

CartOf(body) == GetProp(body, Quote(CART))

ItemsAsStated(text, items) ==
  /\ Len(items) = Cardinality(ItemLineBreaks(text))
  /\ \A k \in 1..Len(items) :
       items[k] = LineItem(JsStr(DEFAULT_VARIANT_ID),
                           JsNum(StatedQuantity(ItemLine(text, k))))

\* C10: parseCartText returns one line item per line that holds both the
\* multiplication marker and "$", in line order, and none for other lines;
\* the quantity is the integer preceding the marker, or 1 without one; the
\* variantId is the fixed fallback identifier.  The example text of two
\* lines yields the quantities 2 and 1.
C10_CartTextItems ==
  (pstep = "cart" /\ CartOf(payload).t = "string") =>
    /\ ~parsed.threw
    /\ ItemsAsStated(CartOf(payload).s, parsed.value)
    /\ (CartOf(payload).s = ExampleCart =>
          [k \in 1..Len(parsed.value) |-> parsed.value[k].quantity]
            = <<JsNum(2), JsNum(1)>>)

C10_Witness ==
  /\ pstep = "cart"
  /\ CartOf(payload) = JsStr(ExampleCart)
  /\ Len(parsed.value) = 2
  /\ parsed.value[1].quantity = JsNum(2)
  /\ parsed.value[2].quantity = JsNum(1)

(***************************************************************************)
(* The handlers: action of orders.jsx (POST /orders), loader and action of *)
(* proxy.$.jsx (GET and POST /proxy/...). One request is followed from its *)
(* arrival to its response; a step runs the handler up to its next await.  *)
(* The collaborators (the body of the request, unauthenticated.admin,       *)
(* admin.graphql) resolve or reject as they choose.                        *)
(***************************************************************************)
Routes == {"orders", "proxyGet", "proxyPost"}

NoCalls == [body |-> 0, parse |-> 0, admin |-> 0, graphql |-> 0]
NoFailure == [body |-> FALSE, submission |-> Undefined]

\* Responses.
NoResponse == [status |-> 0, kind |-> "none", draftOrder |-> JsNull]
Unauthorized401 == [status |-> 401, kind |-> "Unauthorized", draftOrder |-> JsNull]
Ok200(result) == [status |-> 200, kind |-> "ok", draftOrder |-> result]
Error500 == [status |-> 500, kind |-> "Failed to process order payload", draftOrder |-> JsNull]
\* The handler let an exception escape: the framework answers for it.
Unhandled == [status |-> 500, kind |-> "unhandled", draftOrder |-> JsNull]

\* What the collaborators throw: an Error with a message.
ErrorMessages == { <<"n", "o", " ", "s", "e", "s", "s", "i", "o", "n">>, <<"5", "0", "3">> }

\* What admin.graphql resolves to: a draft order, or user errors.
GraphqlResponses ==
  { [t |-> "response", draftOrderId |-> JsStr(<<"1">>), userErrors |-> 0],
    [t |-> "response", draftOrderId |-> JsNull, userErrors |-> 1] }

\* Variant: the catch block only logs.
failureIgnored(message) == JsNull

\* catch (error) { draftOrderResult = { error: error.message, success: false } }
failureResult(message) == [t |-> "failure", error |-> message, success |-> FALSE]

\* Variant: a request is let through when no secret is configured.
rejectedUnlessUnconfigured(verified, secret) == ~verified /\ Truthy(secret)

\* if (!isVerified) return json({...}, {status: 401})
rejected(verified, secret) == ~verified

\* variables.input of createDraftOrder.
OrdersInput(orderData) ==
  [ email     |-> orderData.email,
    address1  |-> orderData.shipping_address1,
    city      |-> orderData.shipping_city,
    province  |-> orderData.shipping_province,
    country   |-> orderData.shipping_country,
    zip       |-> orderData.shipping_zip,
    lineItems |-> orderData.lineItems,
    tags      |-> {"International-Quote"} ]

ProxyInput ==
  [ email     |-> JsStr(<<"c", "u", "s", "t", "o", "m", "e", "r", "@", "e", "x",
                          "a", "m", "p", "l", "e", ".", "c", "o", "m">>),
    address1  |-> JsStr(<<"1", "2", "3", " ", "M", "a", "i", "n", " ", "S", "t">>),
    city      |-> JsStr(<<"S", "p", "r", "i", "n", "g", "f", "i", "e", "l", "d">>),
    province  |-> JsStr(<<"I", "l", "l", "i", "n", "o", "i", "s">>),
    country   |-> JsStr(<< "U", "n", "i", "t", "e", "d", " ", "S", "t", "a", "t",
                           "e", "s" >>),
    zip       |-> JsStr(<<"6", "2", "7", "0", "4">>),
    lineItems |-> Assigned(<<LineItem(JsStr(DEFAULT_VARIANT_ID), JsNum(1))>>),
    tags      |-> {"VIP", "PhoneOrder"} ]

NothingSubmitted == [made |-> FALSE, input |-> <<>>]

\* Requests: with and without shop, unsigned, signed, and wrongly signed.
HandlerQueries ==
  LET S == <<"s", "1">>
      bases == { <<>>, <<Entry(SHOP, S)>>, <<Entry(SHOP, <<>>)>>,
                 <<Entry(SHOP, S), Entry(<<"a">>, <<"1">>)>> }
  IN  UNION { { b,
                b \o <<Entry(SIGNATURE, HmacHex(<<"k">>, sortedParams(b)))>>,
                <<Entry(SIGNATURE, Garbage)>> \o b } : b \in bases }

ContentTypes ==
  { "none", "application/json", "application/x-www-form-urlencoded", "text/plain" }

\* What reading the body gives, by the branch that reads it: request.json(),
\* Object.fromEntries(await request.formData()), request.text().
JsonBodies ==
  { JsNull, JsArr(<<>>), JsObj(NoProps),
    PayloadOf(JsStr(<<"a">>), JsStr(ExampleCart), JsUndefined),
    PayloadOf(JsStr(<<"a">>), JsNum(5), JsStr(ItemsText(ExampleItems, <<>>))),
    PayloadOf(JsUndefined, JsNum(5), JsUndefined) }

FormBodies ==
  { JsObj(NoProps),
    PayloadOf(JsStr(<<"a">>), JsStr(ExampleCart), JsStr(<<>>)),
    PayloadOf(JsStr(<<"a">>), JsStr(<<>>), JsStr(<<"[">>)),
    PayloadOf(JsStr(<<"a">>), JsStr(<<>>), JsStr(<<>>)) }

TextBodies == { JsStr(<<>>), JsStr(ExampleCart) }

BodiesFor(ct) ==
  IF ct = "application/json" THEN JsonBodies
  ELSE IF ct = "application/x-www-form-urlencoded" THEN FormBodies
  ELSE TextBodies

Init ==
  /\ route \in Routes
  /\ searchParams \in HandlerQueries
  /\ sharedSecret \in {Undefined, Some(<<>>), Some(<<"k">>)}
  /\ contentType \in ContentTypes
  /\ isVerified = FALSE
  /\ prev = FALSE
  /\ op = "idle"
  /\ signedParams = <<>>
  /\ NormalizerIdle
  /\ pc = "verify"
  /\ draftOrderResult = JsNull
  /\ submitted = NothingSubmitted
  /\ calls = NoCalls
  /\ failed = NoFailure
  /\ response = NoResponse

\* return json(...): the handler is done.
Respond(r) == pc' = "done" /\ response' = r

\* The draft order step is over with draftOrderResult = result: the orders
\* action and the proxy loader respond, the proxy action reads the form.
AfterDraftOrder(result) ==
  /\ draftOrderResult' = result
  /\ IF route = "proxyPost"
       THEN /\ pc' = "formData"
            /\ calls' = [calls EXCEPT !.body = @ + 1]
            /\ UNCHANGED response
       ELSE /\ Respond(Ok200(result))
            /\ UNCHANGED calls

\* const shop = searchParams.get("shop"); if (shop) { await unauthenticated.admin(shop) ...
BeginDraftOrder ==
  IF Truthy(Get(searchParams, SHOP))
    THEN /\ pc' = "admin"
         /\ calls' = [calls EXCEPT !.admin = @ + 1]
         /\ UNCHANGED <<draftOrderResult, response>>
    ELSE AfterDraftOrder(JsNull)

\* POST /orders up to its first await: verification, then the body is read.
OrdersVerify ==
  /\ route = "orders" /\ pc = "verify"
  /\ isVerified' = verifyShopifyRequest(searchParams, sharedSecret)
  /\ IF rejected(isVerified', sharedSecret)
       THEN Respond(Unauthorized401) /\ UNCHANGED calls
       ELSE /\ pc' = "body"
            /\ calls' = [calls EXCEPT !.body = @ + 1]
            /\ UNCHANGED response
  /\ UNCHANGED <<searchParams, sharedSecret, prev, op, signedParams, pvars, route, contentType,
                 draftOrderResult, submitted, failed>>

\* POST /orders once the body is read, or could not be: parseOrderData, then
\* the draft order step begins.  What is thrown here the outer catch answers
\* with a 500.
OrdersBody ==
  /\ route = "orders" /\ pc = "body"
  /\ \/ \E v \in BodiesFor(contentType) :
          /\ payload' = v
          /\ parsed' = parseOrderData(v)
          /\ IF parsed'.threw
               THEN /\ Respond(Error500)
                    /\ calls' = [calls EXCEPT !.parse = @ + 1]
                    /\ UNCHANGED draftOrderResult
               ELSE IF Truthy(Get(searchParams, SHOP))
                 THEN /\ pc' = "admin"
                      /\ calls' = [calls EXCEPT !.parse = @ + 1, !.admin = @ + 1]
                      /\ UNCHANGED <<draftOrderResult, response>>
                 ELSE /\ Respond(Ok200(JsNull))
                      /\ calls' = [calls EXCEPT !.parse = @ + 1]
                      /\ UNCHANGED draftOrderResult
          /\ UNCHANGED failed
     \/ /\ failed' = [failed EXCEPT !.body = TRUE]
        /\ Respond(Error500)
        /\ UNCHANGED <<payload, parsed, calls, draftOrderResult>>
  /\ UNCHANGED <<vvars, pstep, route, contentType, submitted>>

\* GET and POST /proxy/... up to the first await: verification, then the draft
\* order step begins.
ProxyVerify ==
  /\ route \in {"proxyGet", "proxyPost"} /\ pc = "verify"
  /\ isVerified' = verifyShopifyRequest(searchParams, sharedSecret)
  /\ IF rejected(isVerified', sharedSecret)
       THEN Respond(Unauthorized401) /\ UNCHANGED <<calls, draftOrderResult>>
       ELSE BeginDraftOrder
  /\ UNCHANGED <<searchParams, sharedSecret, prev, op, signedParams, pvars, route, contentType,
                 submitted, failed>>

\* unauthenticated.admin(shop) has resolved, and createDraftOrder calls
\* admin.graphql; or it has rejected, and the catch block records it.
AdminSettled ==
  /\ pc = "admin"
  /\ \/ /\ pc' = "graphql"
        /\ calls' = [calls EXCEPT !.graphql = @ + 1]
        /\ submitted' = [made |-> TRUE,
                         input |-> IF route = "orders"
                                     THEN OrdersInput(parsed.value) ELSE ProxyInput]
        /\ UNCHANGED <<draftOrderResult, response, failed>>
     \/ \E m \in ErrorMessages :
          /\ failed' = [failed EXCEPT !.submission = Some(m)]
          /\ AfterDraftOrder(failureResult(m))
          /\ UNCHANGED submitted
  /\ UNCHANGED <<vvars, pvars, route, contentType>>

\* admin.graphql has resolved; or it has rejected, createDraftOrder has
\* thrown the error again, and the catch block records it.
GraphqlSettled ==
  /\ pc = "graphql"
  /\ \/ \E r \in GraphqlResponses :
          AfterDraftOrder(r) /\ UNCHANGED failed
     \/ \E m \in ErrorMessages :
          /\ failed' = [failed EXCEPT !.submission = Some(m)]
          /\ AfterDraftOrder(failureResult(m))
  /\ UNCHANGED <<vvars, pvars, route, contentType, submitted>>

\* POST /proxy/...: request.formData() has resolved, or has rejected; nothing
\* catches the rejection.
ProxyFormData ==
  /\ route = "proxyPost" /\ pc = "formData"
  /\ \/ \E v \in FormBodies :
          /\ payload' = v
          /\ Respond(Ok200(draftOrderResult))
          /\ UNCHANGED failed
     \/ /\ failed' = [failed EXCEPT !.body = TRUE]
        /\ Respond(Unhandled)
        /\ UNCHANGED payload
  /\ UNCHANGED <<vvars, parsed, pstep, route, contentType, draftOrderResult,
                 submitted, calls>>

Next ==
  \/ OrdersVerify
  \/ OrdersBody
  \/ ProxyVerify
  \/ AdminSettled
  \/ GraphqlSettled
  \/ ProxyFormData

Spec == Init /\ [][Next]_vars

(***************************************************************************)
(* Properties of the handlers (checked under Spec).                        *)
(***************************************************************************)
Verifying == pc = "verify"

\* C1: on every pathway, once verifyShopifyRequest has returned false the
\* handler has responded 401 with the error body and is done, and the
\* request's body is never read, parseOrderData never called and the
\* order-submission collaborator never called.
C1_UnverifiedIsRejected ==
  (~Verifying /\ ~isVerified) =>
    /\ pc = "done"
    /\ response = Unauthorized401
    /\ calls = NoCalls
    /\ ~submitted.made

C1_Witness ==
  /\ pc = "done"
  /\ ~isVerified
  /\ route = "proxyPost"
  /\ Truthy(sharedSecret)
  /\ Truthy(Get(searchParams, SHOP))
  /\ Get(searchParams, SIGNATURE) = Some(Garbage)
  /\ response.status = 401

\* C8: when the order-submission collaborator throws or rejects on a
\* verified request whose body could be read, the handler still responds
\* 200, with a draftOrder that carries success = false and the error's
\* message; it responds with no error status and lets nothing escape.
C8_SubmissionFailureCaptured ==
  (pc = "done" /\ failed.submission.def /\ ~failed.body) =>
    /\ response.status = 200
    /\ response.kind = "ok"
    /\ response.draftOrder =
         [t |-> "failure", error |-> failed.submission.s, success |-> FALSE]

C8_Witness ==
  /\ pc = "done"
  /\ route = "orders"
  /\ isVerified
  /\ calls = [body |-> 1, parse |-> 1, admin |-> 1, graphql |-> 1]
  /\ failed.submission.def
  /\ ~parsed.threw
  /\ response.status = 200
  /\ response.draftOrder.success = FALSE

(***************************************************************************)
(* The fallbacks of the normalizer (checked under ParseSpec).               *)
(***************************************************************************)
\* The quote[cart_line_items] field of the payload is present, as a
\* non-empty text, and is not valid JSON.
MalformedItems ==
  LET field == CartLineItemsOf(payload)
  IN  /\ field.t = "string"
      /\ field.s # <<>>
      /\ JSONparse(field.s).threw

\* A cart description is present: the field holds anything but the empty text.
CartPresent(body) == CartOf(body) \notin {JsUndefined, JsNull, JsStr(<<>>)}

\* The line items are the free-text derivation of the cart description.
DerivedFromCart(body, lineItems) ==
  /\ CartOf(body).t = "string"
  /\ lineItems.assigned
  /\ ItemsAsStated(CartOf(body).s, lineItems.items)

\* C11: when quote[cart_line_items] is present but is no valid JSON,
\* parseOrderData raises nothing; lineItems is the free-text derivation of
\* quote[Cart] when a cart description is present, and the empty list when
\* none is.
C11_MalformedItemsFallBack ==
  (pstep = "normalize" /\ MalformedItems) =>
    /\ ~parsed.threw
    /\ IF CartPresent(payload)
         THEN DerivedFromCart(payload, parsed.value.lineItems)
         ELSE parsed.value.lineItems = Assigned(<<>>)

\* The part of C11 the code keeps: the fallback on cart descriptions that
\* are text, or are absent.
C11_FallBackOnTextCart ==
  (pstep = "normalize" /\ MalformedItems
     /\ CartOf(payload).t \in {"string", "undefined", "null"}) =>
    /\ ~parsed.threw
    /\ IF CartPresent(payload)
         THEN DerivedFromCart(payload, parsed.value.lineItems)
         ELSE parsed.value.lineItems = Assigned(<<>>)

\* Malformed line items next to the two-line cart description: the result
\* holds the two items of the text.
C11_FallBackReached ==
  /\ pstep = "normalize"
  /\ MalformedItems
  /\ CartOf(payload) = JsStr(ExampleCart)
  /\ ~parsed.threw
  /\ parsed.value.lineItems.assigned
  /\ Len(parsed.value.lineItems.items) = 2

(***************************************************************************)
(* The line items of a payload without cart (checked under Spec).          *)
(***************************************************************************)
\* A field is absent, or empty.
AbsentOrEmpty(v) == v \in {JsUndefined, JsStr(<<>>)}

\* POST /orders has normalized a payload that has neither structured line
\* items nor a cart description.
NormalizedWithoutCart ==
  /\ route = "orders"
  /\ calls.parse > 0
  /\ ~Nullish(payload)
  /\ AbsentOrEmpty(CartLineItemsOf(payload))
  /\ AbsentOrEmpty(CartOf(payload))

\* C12: when both quote[cart_line_items] and quote[Cart] are absent or
\* empty, the lineItems of the result of parseOrderData is the empty
\* sequence, and so is the lineItems handed to admin.graphql.
C12_EmptyLineItems ==
  NormalizedWithoutCart =>
    /\ ~parsed.threw
    /\ parsed.value.lineItems = Assigned(<<>>)
    /\ (submitted.made => submitted.input.lineItems = Assigned(<<>>))

\* What the code does instead: lineItems is never assigned, and the input
\* of the mutation carries that undefined lineItems.
C12_LineItemsLeftUndefined ==
  NormalizedWithoutCart =>
    /\ ~parsed.threw
    /\ parsed.value.lineItems = NotAssigned
    /\ (submitted.made => submitted.input.lineItems = NotAssigned)

\* Such a payload has reached admin.graphql.
C12_SubmittedWithoutCart ==
  /\ NormalizedWithoutCart
  /\ submitted.made
  /\ CartOf(payload) = JsStr(<<>>)
  /\ submitted.input.lineItems = NotAssigned

(***************************************************************************)
(* Replay of a signature: a parameter sequence arrives with a signature,   *)
(* is verified, and the signature that verified is presented again with    *)
(* other parameters.                                                       *)
(***************************************************************************)
\* The pairs to choose from: values that hold the text of a further pair
\* (a=1a=1 reads as a=1, a=1), a key that ends a value (a=1ab=1 reads as
\* a=1a, b=1 and as a=1, ab=1).
ReplayPairs ==
  { Entry(<<"a">>, <<"1">>),
    Entry(<<"a">>, <<"1", "a">>),
    Entry(<<"a">>, <<"1", "a", "=", "1">>),
    Entry(<<"a">>, <<"1", "a", "=", "1", "a">>),
    Entry(<<"b">>, <<"1">>),
    Entry(<<"a", "b">>, <<"1">>) }
ReplaySecret == <<"k">>

ReplayBases == UNION { [1..n -> ReplayPairs] : n \in 0..MaxParams }

Signed(b, sig) == b \o <<Entry(SIGNATURE, sig)>>

ReplayInit ==
  /\ \E b \in ReplayBases :
       searchParams \in { Signed(b, HmacHex(ReplaySecret, sortedParams(b))),
                          Signed(b, Garbage) }
  /\ sharedSecret = Some(ReplaySecret)
  /\ isVerified = FALSE
  /\ prev = FALSE
  /\ op = "init"
  /\ signedParams = <<>>
  /\ NormalizerIdle
  /\ HandlerIdle

\* The signature that verified for searchParams comes with other parameters.
Replay ==
  /\ op = "verify"
  /\ isVerified
  /\ \E q \in ReplayBases :
       searchParams' = Signed(q, Get(searchParams, SIGNATURE).s)
  /\ signedParams' = searchParams
  /\ prev' = isVerified
  /\ isVerified' = verifyShopifyRequest(searchParams', sharedSecret)
  /\ op' = "replay"
  /\ UNCHANGED <<sharedSecret, pvars, hvars>>

ReplayNext == Verify \/ Replay

ReplaySpec == ReplayInit /\ [][ReplayNext]_vars

(***************************************************************************)
(* Properties of the replay (checked under ReplaySpec).                    *)
(***************************************************************************)
\* The non-signature key/value pairs of a parameter sequence, as a multiset.
PairCount(sp, e) == Cardinality({i \in 1..Len(sp) : sp[i] = e})

SamePairs(p, q) ==
  LET P == Delete(p, SIGNATURE)
      Q == Delete(q, SIGNATURE)
  IN  /\ Len(P) = Len(Q)
      /\ \A i \in 1..Len(P) : PairCount(P, P[i]) = PairCount(Q, P[i])

\* The signature verified for signedParams and verifies for searchParams.
VerifiesForBoth == op = "replay" /\ prev /\ isVerified

\* C13: a signature that verifies for P verifies for Q only if Q has the
\* same multiset of non-signature key/value pairs as P.
C13_Unforgeable ==
  VerifiesForBoth => SamePairs(signedParams, searchParams)

\* The keys in the order the verifier serializes them.
SortedKeys(sp) ==
  LET sorted == Sort(Delete(sp, SIGNATURE))
  IN  [i \in 1..Len(sorted) |-> sorted[i].key]

NoEqualsInValues(sp) ==
  \A i \in 1..Len(sp) :
    sp[i].key # SIGNATURE => ~Includes(sp[i].value, "=")

\* C13 as the code has it: a signature that verifies for P verifies for Q
\* only if Q serializes to the text P serializes to; Q then has the pairs
\* of P if it has, in sorted order, the keys of P, and no value of P or Q
\* holds "=".
C13_UnforgeableSerialization ==
  VerifiesForBoth =>
    /\ sortedParams(searchParams) = sortedParams(signedParams)
    /\ (/\ SortedKeys(searchParams) = SortedKeys(signedParams)
        /\ NoEqualsInValues(searchParams)
        /\ NoEqualsInValues(signedParams))
         => SamePairs(signedParams, searchParams)

\* The signature verifies for two different sequences of the same pairs.
C13_Witness ==
  /\ VerifiesForBoth
  /\ Len(signedParams) = 3
  /\ Delete(searchParams, SIGNATURE) # Delete(signedParams, SIGNATURE)
  /\ SortedKeys(searchParams) = SortedKeys(signedParams)
  /\ NoEqualsInValues(searchParams)
  /\ SamePairs(signedParams, searchParams)

============================================================================
